---- MODULE Spec2Model ----
(***************************************************************************)
(* A model of dotselect (src/src/dotselect/core.py): the path compiler     *)
(* (_parse_path, _coerce_value), the traversal engine (_traverse, a        *)
(* recursive generator) and the query facade (Path, find_all, find_first). *)
(*                                                                         *)
(* Strings are sequences of one-character strings.  A Python value is a    *)
(* tagged record [t, v]:                                                   *)
(*   "null" (v = 0), "bool" (v a BOOLEAN), "int" (v an integer),           *)
(*   "float" (v = <<m, e>>, the number m / 10^e with e minimal),           *)
(*   "str" (v a string), "list" (v a sequence of values),                  *)
(*   "map" (v a sequence of <<key, value>> pairs in insertion order, the   *)
(*   order Python's dict iterates in).                                     *)
(* A node of a data tree is named by the sequence of child positions that  *)
(* leads to it from the root.                                              *)
(***************************************************************************)
EXTENDS Integers, Sequences, FiniteSets, TLC

\* Number of dot-joined tokens an input path string is built from.
MaxTokens == 2

----------------------------------------------------------------------------
\* Characters and the str methods the compiler uses.

LowerAlpha == <<"a","b","c","d","e","f","g","h","i","j","k","l","m",
                "n","o","p","q","r","s","t","u","v","w","x","y","z">>
UpperAlpha == <<"A","B","C","D","E","F","G","H","I","J","K","L","M",
                "N","O","P","Q","R","S","T","U","V","W","X","Y","Z">>
DigitChars == <<"0","1","2","3","4","5","6","7","8","9">>

SeqRange(s) == {s[i] : i \in 1..Len(s)}

\* The characters the regex class \w matches (ASCII part).
IsWordChar(c) == c \in SeqRange(LowerAlpha) \cup SeqRange(UpperAlpha)
                       \cup SeqRange(DigitChars) \cup {"_"}

IsDigitChar(c) == c \in SeqRange(DigitChars)

DigitVal(c) == (CHOOSE i \in 1..10 : DigitChars[i] = c) - 1

\* str.lower() on one character, then on a string.
LowerChar(c) == IF c \in SeqRange(UpperAlpha)
                THEN LowerAlpha[CHOOSE i \in 1..26 : UpperAlpha[i] = c]
                ELSE c
Lower(s) == [i \in 1..Len(s) |-> LowerChar(s[i])]

\* str.isdigit(): non-empty and every character a digit.
IsDigit(s) == Len(s) > 0 /\ \A i \in 1..Len(s) : IsDigitChar(s[i])

\* Position of the first occurrence of character c in s at or after
\* position from, or Len(s) + 1 when there is none.
FindChar(s, c, from) ==
  IF \E i \in from..Len(s) : s[i] = c
  THEN CHOOSE i \in from..Len(s) :
         s[i] = c /\ \A j \in from..(i - 1) : s[j] # c
  ELSE Len(s) + 1

\* Length of the longest run of \w characters of s starting at position from.
WordRun(s, from) ==
  IF \E i \in from..Len(s) : ~IsWordChar(s[i])
  THEN (CHOOSE i \in from..Len(s) :
          ~IsWordChar(s[i]) /\ \A j \in from..(i - 1) : IsWordChar(s[j])) - from
  ELSE Len(s) - from + 1

RECURSIVE Pow10(_)
Pow10(e) == IF e = 0 THEN 1 ELSE 10 * Pow10(e - 1)

\* The value of a string of decimal digits.
RECURSIVE DigitsVal(_)
DigitsVal(s) == IF Len(s) = 0 THEN 0
                ELSE 10 * DigitsVal(SubSeq(s, 1, Len(s) - 1)) + DigitVal(s[Len(s)])

\* Python values.
PyNone == [t |-> "null", v |-> 0]
PyBool(b) == [t |-> "bool", v |-> b]
PyInt(n) == [t |-> "int", v |-> n]
PyFloat(m, e) == [t |-> "float", v |-> <<m, e>>]
PyStr(s) == [t |-> "str", v |-> s]
PyList(xs) == [t |-> "list", v |-> xs]
PyMap(kvs) == [t |-> "map", v |-> kvs]

----------------------------------------------------------------------------
\* int(s) and float(s) on the input alphabet: an optional sign, decimal
\* digits and, for float, one decimal point.  (Blanks, underscores,
\* exponents, inf and nan do not occur in the path strings drawn here.)

Unsigned(s) == IF Len(s) > 0 /\ s[1] \in {"-", "+"} THEN Tail(s) ELSE s
SignOf(s) == IF Len(s) > 0 /\ s[1] = "-" THEN -1 ELSE 1

IntParses(s) == IsDigit(Unsigned(s))
IntValue(s) == SignOf(s) * DigitsVal(Unsigned(s))

FloatParses(s) ==
  LET u == Unsigned(s)
      d == FindChar(u, ".", 1)
      ip == SubSeq(u, 1, d - 1)
      fp == SubSeq(u, d + 1, Len(u))
  IN /\ d <= Len(u)
     /\ Len(ip) + Len(fp) > 0
     /\ \A i \in 1..Len(ip) : IsDigitChar(ip[i])
     /\ \A i \in 1..Len(fp) : IsDigitChar(fp[i])

\* Drop the trailing zeros of a fraction.
RECURSIVE StripZeros(_)
StripZeros(fp) == IF Len(fp) > 0 /\ fp[Len(fp)] = "0"
                  THEN StripZeros(SubSeq(fp, 1, Len(fp) - 1))
                  ELSE fp

FloatValue(s) ==
  LET u == Unsigned(s)
      d == FindChar(u, ".", 1)
      ip == SubSeq(u, 1, d - 1)
      fp == StripZeros(SubSeq(u, d + 1, Len(u)))
  IN PyFloat(SignOf(s) * (DigitsVal(ip) * Pow10(Len(fp)) + DigitsVal(fp)), Len(fp))

IsQuoted(s) ==
  \/ (Len(s) > 0 /\ s[1] = "\"" /\ s[Len(s)] = "\"")
  \/ (Len(s) > 0 /\ s[1] = "'" /\ s[Len(s)] = "'")

\* _coerce_value
coerce_value(value_str) ==
  LET val_lower == Lower(value_str)
  IN IF val_lower = <<"t","r","u","e">> THEN PyBool(TRUE)
     ELSE IF val_lower = <<"f","a","l","s","e">> THEN PyBool(FALSE)
     ELSE IF val_lower \in {<<"n","u","l","l">>, <<"n","o","n","e">>} THEN PyNone
     ELSE IF FindChar(value_str, ".", 1) <= Len(value_str) /\ FloatParses(value_str)
          THEN FloatValue(value_str)
     ELSE IF FindChar(value_str, ".", 1) > Len(value_str) /\ IntParses(value_str)
          THEN PyInt(IntValue(value_str))
     ELSE IF IsQuoted(value_str)
          THEN PyStr(SubSeq(value_str, 2, Len(value_str) - 1))
     ELSE PyStr(value_str)

----------------------------------------------------------------------------
\* The path compiler.

\* re.split(r'\.', path): the parts between the dots, at least one part.
RECURSIVE SplitDots(_)
SplitDots(path) ==
  LET d == FindChar(path, ".", 1)
  IN IF d > Len(path) THEN <<path>>
     ELSE <<SubSeq(path, 1, d - 1)>> \o SplitDots(SubSeq(path, d + 1, Len(path)))

\* re.match(r"(\w+)\[(\w+)=([^\]]+)\]", part): anchored at the start of the
\* part only.  The groups are forced: field is the leading run of \w, key
\* the run of \w after '[', value everything up to the first ']'.
PredFieldLen(part) == WordRun(part, 1)
PredKeyStart(part) == PredFieldLen(part) + 2
PredKeyLen(part) == WordRun(part, PredKeyStart(part))
PredValStart(part) == PredKeyStart(part) + PredKeyLen(part) + 1
PredValEnd(part) == FindChar(part, "]", PredValStart(part)) - 1

PredicateMatch(part) ==
  /\ PredFieldLen(part) > 0
  /\ PredFieldLen(part) + 1 <= Len(part)
  /\ part[PredFieldLen(part) + 1] = "["
  /\ PredKeyLen(part) > 0
  /\ PredValStart(part) - 1 <= Len(part)
  /\ part[PredValStart(part) - 1] = "="
  /\ PredValEnd(part) >= PredValStart(part)
  /\ PredValEnd(part) + 1 <= Len(part)

PredField(part) == SubSeq(part, 1, PredFieldLen(part))
PredKey(part) == SubSeq(part, PredKeyStart(part), PredKeyStart(part) + PredKeyLen(part) - 1)
PredValueStr(part) == SubSeq(part, PredValStart(part), PredValEnd(part))

\* Faulty variant: a signed number is accepted as an index (int(part) succeeds).
ParsePart_signed(part) ==
  IF PredicateMatch(part)
  THEN [type |-> "predicate", field |-> PredField(part), key |-> PredKey(part),
        value |-> coerce_value(PredValueStr(part))]
  ELSE IF part = <<"*">> THEN [type |-> "wildcard"]
  ELSE IF part = <<"*", "*">> THEN [type |-> "descendant"]
  ELSE IF IntParses(part) THEN [type |-> "index", value |-> IntValue(part)]
  ELSE [type |-> "key", value |-> part]

\* Faulty variant: the digit rule is dropped, a digit-only token is a key.
ParsePart_nodigit(part) ==
  IF PredicateMatch(part)
  THEN [type |-> "predicate", field |-> PredField(part), key |-> PredKey(part),
        value |-> coerce_value(PredValueStr(part))]
  ELSE IF part = <<"*">> THEN [type |-> "wildcard"]
  ELSE IF part = <<"*", "*">> THEN [type |-> "descendant"]
  ELSE [type |-> "key", value |-> part]

\* One iteration of the loop of _parse_path.
ParsePart(part) ==
  IF PredicateMatch(part)
  THEN [type |-> "predicate", field |-> PredField(part), key |-> PredKey(part),
        value |-> coerce_value(PredValueStr(part))]
  ELSE IF part = <<"*">> THEN [type |-> "wildcard"]
  ELSE IF part = <<"*", "*">> THEN [type |-> "descendant"]
  ELSE IF IsDigit(part) THEN [type |-> "index", value |-> DigitsVal(part)]
  ELSE [type |-> "key", value |-> part]

\* _parse_path
parse_path(path) ==
  LET parts == SplitDots(path)
  IN [i \in 1..Len(parts) |-> ParsePart(parts[i])]

----------------------------------------------------------------------------
\* Data trees and the operations of dict and list that _traverse uses.

IsMap(x) == x.t = "map"
IsList(x) == x.t = "list"

\* The children of a node in iteration order: dict.values() or the list.
Children(x) ==
  IF IsMap(x) THEN [i \in 1..Len(x.v) |-> x.v[i][2]]
  ELSE IF IsList(x) THEN x.v
  ELSE <<>>

\* The node of tree d named by the child positions p.
RECURSIVE NodeAt(_, _)
NodeAt(d, p) == IF p = <<>> THEN d ELSE NodeAt(Children(d)[p[1]], Tail(p))

\* key in dict
HasKey(x, name) == \E i \in 1..Len(x.v) : x.v[i][1] = name
KeyPos(x, name) == CHOOSE i \in 1..Len(x.v) : x.v[i][1] = name

\* Faulty variant: a missing entry is read as a value that equals nothing.
DictGet_missing(x, name) ==
  IF HasKey(x, name) THEN x.v[KeyPos(x, name)][2] ELSE [t |-> "missing", v |-> 0]

\* dict.get(key): the entry, None when there is none.
DictGet(x, name) == IF HasKey(x, name) THEN x.v[KeyPos(x, name)][2] ELSE PyNone

\* dict[key] and list[n] succeed (no KeyError, IndexError or TypeError).
DictHasItem(x, name) == IsMap(x) /\ HasKey(x, name)
ListHasItem(x, n) == IsList(x) /\ -Len(x.v) <= n /\ n < Len(x.v)

\* The position list[n] reads: negative n counts from the end.
ListPos(x, n) == IF n < 0 THEN Len(x.v) + n + 1 ELSE n + 1

\* Python's == between a tree value and a predicate literal.  bool, int and
\* float compare by numeric value (True == 1 == 1.0); str with str; None
\* with None; a dict or a list never equals a scalar literal.
IsNumeric(x) == x.t \in {"bool", "int", "float"}
NumOf(x) == IF x.t = "bool" THEN <<(IF x.v THEN 1 ELSE 0), 0>>
            ELSE IF x.t = "int" THEN <<x.v, 0>>
            ELSE x.v
PyEq(a, b) ==
  IF IsNumeric(a) /\ IsNumeric(b) THEN NumOf(a) = NumOf(b)
  ELSE IF a.t = "str" /\ b.t = "str" THEN a.v = b.v
  ELSE a.t = "null" /\ b.t = "null"

\* The elements of a set of positions in increasing order.
SortedSeq(S) ==
  [k \in 1..Cardinality(S) |-> CHOOSE i \in S : Cardinality({j \in S : j < i}) = k - 1]

----------------------------------------------------------------------------
\* _traverse: the recursive calls one invocation on node p of tree d with
\* segment list segs makes, in order.  A call is [node, segs].

Call(p, segs) == [node |-> p, segs |-> segs]

\* line 63
KeyGuard(node, head) == IsMap(node) /\ HasKey(node, head.value)
\* Faulty variant: the bounds test of line 67 is missing.
IndexGuard_nobounds(node, head) == IsList(node)

\* line 67
IndexGuard(node, head) ==
  IsList(node) /\ -Len(node.v) <= head.value /\ head.value < Len(node.v)
\* line 80 and line 82
PredicateGuard(node, head) ==
  IsMap(node) /\ HasKey(node, head.field) /\ IsList(DictGet(node, head.field))
\* line 84, first conjunct
ItemGuard(item) == IsMap(item)
\* line 84
ItemMatches(item, head) == ItemGuard(item) /\ PyEq(DictGet(item, head.key), head.value)

\* Faulty variant: the children are searched before the node itself.
DescendantCalls_childrenfirst(node, p, segs) ==
  [i \in 1..Len(Children(node)) |-> Call(Append(p, i), segs)] \o
  <<Call(p, Tail(segs))>>

\* lines 53-60: first the node itself with the tail, then every child with
\* the unchanged segment list.
DescendantCalls(node, p, segs) ==
  <<Call(p, Tail(segs))>> \o
  [i \in 1..Len(Children(node)) |-> Call(Append(p, i), segs)]

\* lines 62-64
KeyCalls(node, p, segs) ==
  IF KeyGuard(node, segs[1]) /\ DictHasItem(node, segs[1].value)
  THEN <<Call(Append(p, KeyPos(node, segs[1].value)), Tail(segs))>>
  ELSE <<>>

\* lines 66-68
IndexCalls(node, p, segs) ==
  IF IndexGuard(node, segs[1]) /\ ListHasItem(node, segs[1].value)
  THEN <<Call(Append(p, ListPos(node, segs[1].value)), Tail(segs))>>
  ELSE <<>>

\* lines 70-76
WildcardCalls(node, p, segs) ==
  [i \in 1..Len(Children(node)) |-> Call(Append(p, i), Tail(segs))]

\* lines 78-85
PredicateCalls(node, p, segs) ==
  IF PredicateGuard(node, segs[1])
  THEN LET f == KeyPos(node, segs[1].field)
           items == DictGet(node, segs[1].field).v
           sel == SortedSeq({j \in 1..Len(items) : ItemMatches(items[j], segs[1])})
       IN [k \in 1..Len(sel) |-> Call(p \o <<f, sel[k]>>, Tail(segs))]
  ELSE <<>>

Calls(d, p, segs) ==
  LET node == NodeAt(d, p)
      ty == segs[1].type
  IN CASE ty = "descendant" -> DescendantCalls(node, p, segs)
       [] ty = "key" -> KeyCalls(node, p, segs)
       [] ty = "index" -> IndexCalls(node, p, segs)
       [] ty = "wildcard" -> WildcardCalls(node, p, segs)
       [] ty = "predicate" -> PredicateCalls(node, p, segs)

\* An invocation raises where a subscript is taken that its guard does not
\* cover: data[key] (KeyError), data[n] (IndexError), item.get on a
\* non-dict (AttributeError).
Raises(d, p, segs) ==
  LET node == NodeAt(d, p)
      head == segs[1]
  IN CASE head.type = "key" ->
            KeyGuard(node, head) /\ ~DictHasItem(node, head.value)
       [] head.type = "index" ->
            IndexGuard(node, head) /\ ~ListHasItem(node, head.value)
       [] head.type = "predicate" ->
            /\ PredicateGuard(node, head)
            /\ \E j \in 1..Len(DictGet(node, head.field).v) :
                 LET item == DictGet(node, head.field).v[j]
                 IN ItemGuard(item) /\ ~IsMap(item)
       [] OTHER -> FALSE

\* The invocations of _traverse a complete (exhausted) traversal makes, in
\* the order they start.  An invocation with no segments left yields its node.
RECURSIVE TraverseVisits(_, _, _)
RECURSIVE VisitsOfCalls(_, _)
VisitsOfCalls(d, calls) ==
  IF calls = <<>> THEN <<>>
  ELSE TraverseVisits(d, calls[1].node, calls[1].segs) \o VisitsOfCalls(d, Tail(calls))
TraverseVisits(d, p, segs) ==
  <<Call(p, segs)>> \o
  (IF segs = <<>> THEN <<>> ELSE VisitsOfCalls(d, Calls(d, p, segs)))

IsYield(c) == c.segs = <<>>

\* The nodes a complete traversal yields, in order.
Traverse(d, p, segs) ==
  LET ys == SelectSeq(TraverseVisits(d, p, segs), IsYield)
  IN [i \in 1..Len(ys) |-> ys[i].node]

----------------------------------------------------------------------------
\* Inputs: path strings, data trees and segment lists handed to _traverse.

S(c) == <<c>>
PredTok(val) == <<"f", "[", "k", "=">> \o val \o <<"]">>

\* The tokens path strings are joined from with '.'.
Tokens == <<
  <<>>,                          \* the empty string
  <<"a">>, <<"b">>,
  <<"*">>, <<"*", "*">>,
  <<"0">>, <<"1">>,
  <<"-", "1">>,
  PredTok(<<"1">>),              \* f[k=1]
  PredTok(<<"1", ".", "5">>),    \* f[k=1.5]
  PredTok(<<"N", "u", "l", "l">>), \* f[k=Null]
  PredTok(<<"n", "o", "n", "e">>), \* f[k=none]
  PredTok(<<"'", "1", "'">>)     \* f[k='1']
>>

RECURSIVE JoinDots(_)
JoinDots(ts) == IF Len(ts) = 1 THEN Tokens[ts[1]]
                ELSE Tokens[ts[1]] \o <<".">> \o JoinDots(Tail(ts))

TokenLists == UNION {[1..n -> 1..Len(Tokens)] : n \in 1..MaxTokens}
PathStrs == {JoinDots(ts) : ts \in TokenLists}

Datas == <<
  \* {"a": [1, 2, 3]}
  PyMap(<< <<S("a"), PyList(<<PyInt(1), PyInt(2), PyInt(3)>>)>> >>),
  \* {"a": {"b": {"a": 1}}}
  PyMap(<< <<S("a"), PyMap(<< <<S("b"), PyMap(<< <<S("a"), PyInt(1)>> >>)>> >>)>> >>),
  \* {"f": [{"k": 1, "a": "x"}, {"k": "1"}, {"k": True}, {"k": 1.0},
  \*        {"k": None}, {"a": 7}, 5, {"k": 1.5}]}
  PyMap(<< <<S("f"), PyList(<<
      PyMap(<< <<S("k"), PyInt(1)>>, <<S("a"), PyStr(S("x"))>> >>),
      PyMap(<< <<S("k"), PyStr(S("1"))>> >>),
      PyMap(<< <<S("k"), PyBool(TRUE)>> >>),
      PyMap(<< <<S("k"), PyFloat(1, 0)>> >>),
      PyMap(<< <<S("k"), PyNone>> >>),
      PyMap(<< <<S("a"), PyInt(7)>> >>),
      PyInt(5),
      PyMap(<< <<S("k"), PyFloat(15, 1)>> >>) >>)>> >>),
  \* {"a": {"0": 7, "-1": 8}, "b": [7, 8]}
  PyMap(<< <<S("a"), PyMap(<< <<S("0"), PyInt(7)>>, <<(<<"-", "1">>), PyInt(8)>> >>)>>,
           <<S("b"), PyList(<<PyInt(7), PyInt(8)>>)>> >>),
  \* 5
  PyInt(5),
  \* [[1], {"a": None}]
  PyList(<<PyList(<<PyInt(1)>>), PyMap(<< <<S("a"), PyNone>> >>)>>),
  \* {"": 9, "a": None, "f": 3}
  PyMap(<< <<(<<>>), PyInt(9)>>, <<S("a"), PyNone>>, <<S("f"), PyInt(3)>> >>)
>>

SegKey(name) == [type |-> "key", value |-> name]
SegIndex(n) == [type |-> "index", value |-> n]
SegWildcard == [type |-> "wildcard"]
SegDescendant == [type |-> "descendant"]

\* Segment lists for calls of _traverse that bypass the compiler.
DirectSegs == <<
  <<>>,
  <<SegIndex(-1)>>,
  <<SegKey(S("a")), SegIndex(-1)>>,
  <<SegKey(S("a")), SegIndex(-3)>>,
  <<SegKey(S("a")), SegIndex(-4)>>,
  <<SegKey(S("b")), SegIndex(-2)>>,
  <<SegDescendant, SegIndex(-1)>>
>>

----------------------------------------------------------------------------
\* The program: a Path is compiled, then find_all or find_first drives the
\* generator _traverse, whose suspended invocations form a stack of frames
\* [node, segs, i]: i counts the recursive calls the frame has made (for a
\* frame without segments, whether it has yielded).

VARIABLES path_str, segments, data, mode, pc, stack, out, visited, result

vars == <<path_str, segments, data, mode, pc, stack, out, visited, result>>

Unset == [t |-> "unset", v |-> 0]

Frame(c) == [node |-> c.node, segs |-> c.segs, i |-> 0]

Init ==
  /\ path_str = <<>>
  /\ segments = <<>>
  /\ data = PyNone
  /\ mode = "none"
  /\ pc = "start"
  /\ stack = <<>>
  /\ out = <<>>
  /\ visited = <<>>
  /\ result = Unset

\* Path.__init__
PathInit(p) ==
  /\ pc = "start"
  /\ path_str' = p
  /\ segments' = parse_path(p)
  /\ pc' = "compiled"
  /\ UNCHANGED <<data, mode, stack, out, visited, result>>

\* The first invocation of the generator.
Start(d, segs, m) ==
  /\ data' = d
  /\ mode' = m
  /\ stack' = <<Frame(Call(<<>>, segs))>>
  /\ visited' = <<Call(<<>>, segs)>>
  /\ pc' = "running"
  /\ UNCHANGED <<out, result>>

\* Path.find_all, consumed to exhaustion.
CallFindAll(d) ==
  /\ pc = "compiled"
  /\ Start(d, segments, "all")
  /\ UNCHANGED <<path_str, segments>>

\* Path.find_first
CallFindFirst(d) ==
  /\ pc = "compiled"
  /\ Start(d, segments, "first")
  /\ UNCHANGED <<path_str, segments>>

\* _traverse called with a segment list, consumed to exhaustion.
CallTraverse(d, segs) ==
  /\ pc = "start"
  /\ segments' = segs
  /\ Start(d, segs, "traverse")
  /\ UNCHANGED path_str

\* Faulty variant: find_first drains the generator (first element of a list of all).
ConsumerStopped_never(m, o) == FALSE

\* Faulty variant: find_first calls next() twice and returns the second value.
ConsumerStopped_second(m, o) == m = "first" /\ Len(o) >= 2

\* find_first takes one element with next() and abandons the generator.
ConsumerStopped(m, o) == m = "first" /\ Len(o) >= 1

Top == stack[Len(stack)]
Running == pc = "running" /\ stack # <<>> /\ ~ConsumerStopped(mode, out)

\* lines 47-48: yield data
Yield ==
  /\ Running
  /\ Top.segs = <<>> /\ Top.i = 0
  /\ out' = Append(out, Top.node)
  /\ stack' = [stack EXCEPT ![Len(stack)].i = 1]
  /\ UNCHANGED <<path_str, segments, data, mode, pc, visited, result>>

\* The next recursive call of the top frame, or the exception it raises.
Advance ==
  /\ IF Raises(data, Top.node, Top.segs)
     THEN /\ pc' = "raised"
          /\ UNCHANGED <<stack, visited>>
     ELSE /\ Top.i < Len(Calls(data, Top.node, Top.segs))
          /\ LET c == Calls(data, Top.node, Top.segs)[Top.i + 1]
             IN /\ stack' = Append([stack EXCEPT ![Len(stack)].i = Top.i + 1], Frame(c))
                /\ visited' = Append(visited, c)
          /\ pc' = pc
  /\ UNCHANGED <<path_str, segments, data, mode, out, result>>

HeadIs(ty) == Running /\ Top.segs # <<>> /\ Top.segs[1].type = ty

\* lines 53-60
StepDescendant ==
  /\ HeadIs("descendant")
  /\ Advance

\* lines 62-64
StepKey ==
  /\ HeadIs("key")
  /\ Advance

\* lines 66-68
StepIndex ==
  /\ HeadIs("index")
  /\ Advance

\* lines 70-76
StepWildcard ==
  /\ HeadIs("wildcard")
  /\ Advance

\* lines 78-85
StepPredicate ==
  /\ HeadIs("predicate")
  /\ Advance

\* The top invocation ends: line 49, or the end of the function body.
Return ==
  /\ Running
  /\ \/ Top.segs = <<>> /\ Top.i = 1
     \/ /\ Top.segs # <<>>
        /\ ~Raises(data, Top.node, Top.segs)
        /\ Top.i = Len(Calls(data, Top.node, Top.segs))
  /\ stack' = SubSeq(stack, 1, Len(stack) - 1)
  /\ UNCHANGED <<path_str, segments, data, mode, pc, out, visited, result>>

\* The consumer of find_all (or of _traverse) sees the generator exhausted.
FinishAll ==
  /\ pc = "running" /\ mode \in {"all", "traverse"} /\ stack = <<>>
  /\ pc' = "done"
  /\ UNCHANGED <<path_str, segments, data, mode, stack, out, visited, result>>

\* line 100: next() returned the value the generator yielded last.
FindFirstReturn ==
  /\ pc = "running" /\ ConsumerStopped(mode, out)
  /\ result' = NodeAt(data, out[Len(out)])
  /\ pc' = "done"
  /\ UNCHANGED <<path_str, segments, data, mode, stack, out, visited>>

\* lines 101-102: next() raised StopIteration.
FindFirstStop ==
  /\ pc = "running" /\ mode = "first" /\ stack = <<>> /\ out = <<>>
  /\ result' = PyNone
  /\ pc' = "done"
  /\ UNCHANGED <<path_str, segments, data, mode, stack, out, visited>>

Next ==
  \/ \E p \in PathStrs : PathInit(p)
  \/ \E i \in 1..Len(Datas) : CallFindAll(Datas[i])
  \/ \E i \in 1..Len(Datas) : CallFindFirst(Datas[i])
  \/ \E i \in 1..Len(Datas), j \in 1..Len(DirectSegs) : CallTraverse(Datas[i], DirectSegs[j])
  \/ Yield
  \/ StepDescendant
  \/ StepKey
  \/ StepIndex
  \/ StepWildcard
  \/ StepPredicate
  \/ Return
  \/ FinishAll
  \/ FindFirstReturn
  \/ FindFirstStop

Spec == Init /\ [][Next]_vars

----------------------------------------------------------------------------
\* Notions the properties are stated with.

\* The path was compiled from path_str (not a direct call of _traverse).
Compiled == pc # "start" /\ mode # "traverse"
Exhausted == pc = "done" /\ mode \in {"all", "traverse"}

Parts == SplitDots(path_str)

PathA(tok) == <<"a", ".">> \o tok
NegOne == <<"-", "1">>
IsNegNumber(part) == Len(part) >= 2 /\ part[1] = "-" /\ IsDigit(Tail(part))

\* The nodes of the subtree at p, depth first, a node before its children.
RECURSIVE PreOrder(_, _)
RECURSIVE PreOrderFrom(_, _, _)
PreOrderFrom(d, p, i) ==
  IF i > Len(Children(NodeAt(d, p))) THEN <<>>
  ELSE PreOrder(d, Append(p, i)) \o PreOrderFrom(d, p, i + 1)
PreOrder(d, p) == <<p>> \o PreOrderFrom(d, p, 1)

\* The matches of segs on each of the nodes, concatenated.
RECURSIVE ConcatMatches(_, _, _)
ConcatMatches(d, nodes, segs) ==
  IF nodes = <<>> THEN <<>>
  ELSE Traverse(d, nodes[1], segs) \o ConcatMatches(d, Tail(nodes), segs)

IsPrefix(a, b) == Len(a) <= Len(b) /\ SubSeq(b, 1, Len(a)) = a

\* The visits up to and including the first one that yields.
ThroughFirstYield(vs) ==
  IF \E k \in 1..Len(vs) : IsYield(vs[k])
  THEN SubSeq(vs, 1, CHOOSE k \in 1..Len(vs) :
                       IsYield(vs[k]) /\ \A j \in 1..(k - 1) : ~IsYield(vs[j]))
  ELSE vs

\* Same literal type and same value.
TypedEq(a, b) == a.t = b.t /\ a.v = b.v

PredSeg(val) == [type |-> "predicate", field |-> S("f"), key |-> S("k"), value |-> val]

\* The head segment cannot match at this node.
NoMatchCase(node, head) ==
  CASE head.type = "key" -> ~IsMap(node) \/ ~HasKey(node, head.value)
    [] head.type = "index" ->
         ~IsList(node) \/ head.value >= Len(node.v) \/ head.value < -Len(node.v)
    [] head.type = "wildcard" -> ~IsMap(node) /\ ~IsList(node)
    [] head.type = "predicate" ->
         \/ ~IsMap(node)
         \/ ~HasKey(node, head.field)
         \/ ~IsList(DictGet(node, head.field))
         \/ \A j \in 1..Len(DictGet(node, head.field).v) :
              LET item == DictGet(node, head.field).v[j]
              IN ~IsMap(item) \/ ~PyEq(DictGet(item, head.key), head.value)
    [] OTHER -> FALSE

----------------------------------------------------------------------------
\* Properties.

\* C1: find_all(data, "") yields exactly one value, data itself.
C1_EmptyPathYieldsData ==
  (pc = "done" /\ mode = "all" /\ path_str = <<>>) => out = << <<>> >>

\* C2: a predicate token whose value contains a '.', here f[k=1.5], compiles
\* to a single predicate segment whose value is the coercion of the whole
\* text between '=' and ']', the float 1.5.
C2_DottedPredicateValue ==
  (Compiled /\ path_str = PredTok(<<"1", ".", "5">>)) =>
     segments = <<PredSeg(PyFloat(15, 1))>>

\* C3: predicate matching is type-and-value equality: the entry at key of
\* every element a predicate selects has the same literal type and the same
\* value as the compiled value (an integer literal selects no element whose
\* entry is a string, a boolean or a float).
C3_TypedEquality ==
  (pc = "done" /\ mode = "all" /\ Len(segments) = 1 /\ segments[1].type = "predicate") =>
     \A i \in 1..Len(out) :
       LET item == NodeAt(data, out[i])
       IN HasKey(item, segments[1].key) =>
            TypedEq(DictGet(item, segments[1].key), segments[1].value)

\* C4: with a descendant head, the traversal yields the matches of the tail
\* on every node of the tree, the nodes taken once each in depth-first
\* pre-order; for {"a": {"b": {"a": 1}}} and **.a the map at key a comes
\* before the nested 1.
C4_DescendantPreOrder ==
  /\ (Exhausted /\ segments # <<>> /\ segments[1].type = "descendant") =>
        out = ConcatMatches(data, PreOrder(data, <<>>), Tail(segments))
  /\ (Exhausted /\ Compiled /\ path_str = <<"*", "*", ".", "a">> /\ data = Datas[2]) =>
        out = << <<1>>, <<1, 1, 1>> >>

C4_Witness ==
  /\ Exhausted /\ Compiled
  /\ path_str = <<"*", "*", ".", "a">> /\ data = Datas[2]
  /\ Len(out) = 2

\* C5: find_first pulls at most one element, and the invocations it causes
\* are the prefix of the complete traversal's invocations that ends at the
\* first yield: nothing is visited after the first match.
C5_FindFirstLazy ==
  mode = "first" =>
    LET all == TraverseVisits(data, <<>>, segments)
    IN /\ Len(out) <= 1
       /\ IsPrefix(visited, ThroughFirstYield(all))
       /\ (Len(out) = 1 \/ pc = "done") => visited = ThroughFirstYield(all)

C5_Witness ==
  /\ mode = "first" /\ pc = "done" /\ Len(out) = 1
  /\ Len(visited) < Len(TraverseVisits(data, <<>>, segments))

\* C6: a negative-number token compiles to a key segment named by the raw
\* token, never to an index segment; on a sequence it matches nothing
\* (a.-1 on {"a": [1, 2, 3]} is empty); an index segment with a negative n
\* in range does select the element counted from the end.
C6_NegativeTokenIsKey ==
  /\ Compiled =>
       /\ \A i \in 1..Len(Parts) : IsNegNumber(Parts[i]) => segments[i] = SegKey(Parts[i])
       /\ \A i \in 1..Len(segments) : segments[i].type = "index" => segments[i].value >= 0
  /\ \A k \in 1..Len(visited) :
       LET c == visited[k]
       IN (c.segs # <<>> /\ c.segs[1].type = "key" /\ IsNegNumber(c.segs[1].value)
             /\ IsList(NodeAt(data, c.node)))
          => Traverse(data, c.node, c.segs) = <<>>
  /\ (Exhausted /\ Compiled /\ path_str = PathA(NegOne) /\ data = Datas[1]) => out = <<>>
  /\ \A k \in 1..(Len(visited) - 1) :
       LET c == visited[k]
           node == NodeAt(data, c.node)
       IN (c.segs # <<>> /\ c.segs[1].type = "index" /\ c.segs[1].value < 0
             /\ IsList(node) /\ -Len(node.v) <= c.segs[1].value)
          => visited[k + 1] = Call(Append(c.node, Len(node.v) + c.segs[1].value + 1),
                                   Tail(c.segs))
  /\ (Exhausted /\ segments = <<SegKey(S("a")), SegIndex(-1)>> /\ data = Datas[1]) =>
        out = << <<1, 3>> >>

C6_Witness ==
  /\ Exhausted /\ Compiled
  /\ path_str = PathA(NegOne) /\ data = Datas[1]
  /\ segments[2] = SegKey(NegOne)
  /\ Len(visited) = 2 /\ out = <<>>

\* C7: no traversal raises; a segment that cannot match at a node (missing
\* key, index out of range, key, index or wildcard on a scalar, predicate
\* without field, sequence or matching element) yields nothing for that
\* branch, and find_first then returns None.
C7_NoMatchNoError ==
  /\ pc # "raised"
  /\ \A k \in 1..Len(visited) :
       LET c == visited[k]
       IN (c.segs # <<>> /\ NoMatchCase(NodeAt(data, c.node), c.segs[1]))
          => Traverse(data, c.node, c.segs) = <<>>
  /\ (pc = "done" /\ segments # <<>> /\ NoMatchCase(data, segments[1])) =>
        /\ out = <<>>
        /\ mode = "first" => result = PyNone

C7_Witness ==
  /\ pc = "done" /\ mode = "first" /\ result = PyNone /\ out = <<>>
  /\ \E k \in 1..Len(visited) :
       LET c == visited[k]
       IN /\ c.segs # <<>> /\ c.segs[1].type = "index"
          /\ IsList(NodeAt(data, c.node))
          /\ c.segs[1].value >= Len(NodeAt(data, c.node).v)

\* C8: a predicate whose value is written null or none (any letter case)
\* compiles to the value None and selects exactly the map elements of the
\* filtered sequence that have no entry for key or whose entry is None.
C8_NullSelectsMissing ==
  /\ (Compiled /\ path_str \in {PredTok(<<"N", "u", "l", "l">>), PredTok(<<"n", "o", "n", "e">>)})
        => segments = <<PredSeg(PyNone)>>
  /\ (pc = "done" /\ mode = "all" /\ Len(segments) = 1 /\ segments[1].type = "predicate"
        /\ segments[1].value = PyNone /\ PredicateGuard(data, segments[1])) =>
        LET items == DictGet(data, segments[1].field).v
            f == KeyPos(data, segments[1].field)
            sel == SortedSeq({j \in 1..Len(items) :
                     /\ IsMap(items[j])
                     /\ \/ ~HasKey(items[j], segments[1].key)
                        \/ items[j].v[KeyPos(items[j], segments[1].key)][2].t = "null"})
        IN out = [n \in 1..Len(sel) |-> <<f, sel[n]>>]

C8_Witness ==
  /\ pc = "done" /\ mode = "all"
  /\ path_str = PredTok(<<"N", "u", "l", "l">>) /\ data = Datas[3]
  /\ out = << <<1, 5>>, <<1, 6>> >>
  /\ ~HasKey(NodeAt(data, <<1, 6>>), S("k"))

\* C9: find_first returns None when find_all yields nothing and when the
\* first value find_all yields is None; otherwise it returns the first
\* element of find_all.
C9_FindFirstResult ==
  (pc = "done" /\ mode = "first") =>
    LET all == Traverse(data, <<>>, segments)
    IN IF all = <<>> THEN result = PyNone ELSE result = NodeAt(data, all[1])

C9_Witness ==
  /\ pc = "done" /\ mode = "first"
  /\ result = PyNone
  /\ Traverse(data, <<>>, segments) # <<>>

\* C10: a digit-only token always compiles to an index segment, an index
\* segment never matches a map, so a.0 selects nothing from a map bound at
\* a, whatever it holds at key "0".
C10_DigitKeyUnreachable ==
  /\ Compiled =>
       \A i \in 1..Len(Parts) : IsDigit(Parts[i]) => segments[i] = SegIndex(DigitsVal(Parts[i]))
  /\ \A k \in 1..Len(visited) :
       LET c == visited[k]
       IN (c.segs # <<>> /\ c.segs[1].type = "index" /\ IsMap(NodeAt(data, c.node)))
          => Traverse(data, c.node, c.segs) = <<>>
  /\ (pc = "done" /\ mode = "all" /\ path_str = PathA(<<"0">>)
        /\ IsMap(data) /\ HasKey(data, S("a")) /\ IsMap(DictGet(data, S("a")))) =>
        out = <<>>

C10_Witness ==
  /\ pc = "done" /\ mode = "all"
  /\ path_str = PathA(<<"0">>) /\ data = Datas[4]
  /\ HasKey(DictGet(data, S("a")), S("0"))
  /\ out = <<>>

====
